---- MODULE Spec2Model ----
(***************************************************************************)
(* A model of kakuro-kuso.py: the combinatorics table (lookup), the grid   *)
(* (Map / Kakuro), the two narrowing passes, the brute-force search and    *)
(* the solve loop.  Grid indices are the 0-based indices of the Python     *)
(* tuple self.data; entry idx of the tuple is data[idx + 1] here.  Where   *)
(* the Python code passes Cell objects around, the model passes the        *)
(* indices of those cells.                                                 *)
(***************************************************************************)
EXTENDS Integers, Sequences, FiniteSets, TLC

VARIABLES
    width,      \* Map.width
    height,     \* Map.height
    data,       \* Map.data: the row-major tuple of Clue and Cell entries
    pc,         \* where the program is: the pass running, crack, ...
    ri,         \* position of the loops over (clue, direction) of a pass
    changed,    \* the local variable `changed` of the pass running
    entry,      \* history: data when the phase running was entered
    given,      \* history: data as loaded, before solve
    valid,      \* history: the valid solutions of the grid as loaded
    log,        \* history: the phases solve has completed, with their result
    pools,      \* history: the candidate tuples crack took the product of
    ret,        \* the value crack returned
    solved,     \* the value of is_solved() printed by the main program
    key,        \* the (number, cells) pair looked up in the table
    summands    \* what the table lookup gave for key

vars == <<width, height, data, pc, ri, changed, entry, given, valid, log, pools,
          ret, solved, key, summands>>

----------------------------------------------------------------------------
(* Bounds of the model                                                     *)

\* clue targets of the input grids range over 0..MaxClue
MaxClue == 18
\* restricted input cells hold digits of 1..MaxGiven
MaxGiven == 3
\* clue targets of the grid with crossing runs range over 0..MaxCross
MaxCross == 4
\* the table is queried for sums 0..MaxSum
MaxSum == 46

Digits == 1..9

----------------------------------------------------------------------------
(* Arithmetic helpers of the Python builtins                               *)

Min(a, b) == IF a <= b THEN a ELSE b
Max(a, b) == IF a >= b THEN a ELSE b

RECURSIVE SumSet(_)
SumSet(S) == IF S = {} THEN 0
             ELSE LET x == CHOOSE y \in S : TRUE IN x + SumSet(S \ {x})

RECURSIVE SumSeq(_)
SumSeq(s) == IF s = <<>> THEN 0 ELSE Head(s) + SumSeq(Tail(s))

Range(s) == {s[i] : i \in DOMAIN s}

----------------------------------------------------------------------------
(* triangular, triangular_prime and the lookup table                       *)

triangular(n) == (n * (n + 1)) \div 2

triangular_prime_base9(n) == n * 9 - triangular(n)

triangular_prime(n) == n * 10 - triangular(n)

\* d[k] = v on a dict
Put(d, k, v) == [x \in (DOMAIN d) \cup {k} |-> IF x = k THEN v ELSE d[x]]

\* the set operator ^
SymDiff(A, B) == (A \ B) \cup (B \ A)

\* lookup = {(i, 1): {i} for i in range(1,10)}
lookup_literal == [k \in {<<i, 1>> : i \in 1..9} |-> {k[1]}]

\* a loop body that forgets the second smallest / second biggest sums
lookup_body_extremes_only(d, i) ==
    LET ti == triangular(i)
        invti == triangular_prime(i)
    IN Put(Put(d, <<ti, i>>, 1..i), <<invti, i>>, (10 - i)..9)

\* one iteration of the loop `for i in range(2,10)`
lookup_body(d, i) ==
    LET ti == triangular(i)
        invti == triangular_prime(i)
        minset == 1..i
        maxset == (10 - i)..9
        d1 == Put(d, <<ti, i>>, minset)
        d2 == Put(d1, <<invti, i>>, maxset)
    IN IF i < 9
       THEN Put(Put(d2, <<ti + 1, i>>, SymDiff(minset, {i, i + 1})),
                <<invti - 1, i>>, SymDiff(maxset, {10 - i, 10 - i - 1}))
       ELSE d2

RECURSIVE lookup_loop(_, _)
lookup_loop(d, i) == IF i > 9 THEN d ELSE lookup_loop(lookup_body(d, i), i + 1)

lookup == lookup_loop(lookup_literal, 2)

----------------------------------------------------------------------------
(* Cell and Clue                                                           *)

Cell(candidates) == [type |-> "Cell", candidates |-> candidates]
Clue(vertical, horizontal) ==
    [type |-> "Clue", vertical |-> vertical, horizontal |-> horizontal]

is_unique(cell) == Cardinality(cell.candidates) = 1

unique_value(cell) == CHOOSE x \in cell.candidates : TRUE

\* a substract that reports a change only when the cell becomes unique
substract_reports_unique(cell, substract_set) ==
    LET new == cell.candidates \ substract_set
    IN [cell |-> [cell EXCEPT !.candidates = new],
        ret |-> Cardinality(new) = 1 /\ Cardinality(cell.candidates) # 1]

\* Cell.substract: the cell afterwards and the value returned
substract(cell, substract_set) ==
    LET new == cell.candidates \ substract_set
    IN [cell |-> [cell EXCEPT !.candidates = new],
        ret |-> Cardinality(cell.candidates) # Cardinality(new)]

\* Cell.intersect: the cell afterwards and the value returned
intersect(cell, intersect_set) ==
    LET new == cell.candidates \cap intersect_set
    IN [cell |-> [cell EXCEPT !.candidates = new],
        ret |-> Cardinality(cell.candidates) # Cardinality(new)]

\* `for c in cs: changed = c.substract(s) or changed` on grid d; cs are
\* the indices of distinct cells
substract_each(d, cs, s, ch) ==
    [data |-> [i \in DOMAIN d |->
                  IF i - 1 \in Range(cs) THEN substract(d[i], s).cell ELSE d[i]],
     changed |-> ch \/ \E k \in DOMAIN cs : substract(d[cs[k] + 1], s).ret]

\* `for c in cs: changed = c.intersect(s) or changed` on grid d
intersect_each(d, cs, s, ch) ==
    [data |-> [i \in DOMAIN d |->
                  IF i - 1 \in Range(cs) THEN intersect(d[i], s).cell ELSE d[i]],
     changed |-> ch \/ \E k \in DOMAIN cs : intersect(d[cs[k] + 1], s).ret]

----------------------------------------------------------------------------
(* constrain_cells_sum                                                     *)

\* its assertion
constrain_precondition(n, count) ==
    n >= triangular(count) /\ n <= triangular_prime(count)

\* a narrowing whose assertion checks only the lower bound of n
constrain_cells_sum_no_upper(n, cells, d) ==
    LET count == Len(cells)
        hit == <<n, count>> \in DOMAIN lookup
        r1 == IF hit THEN intersect_each(d, cells, lookup[<<n, count>>], FALSE)
              ELSE [data |-> d, changed |-> FALSE]
        cellset_max == IF count > 1 THEN Min(n - triangular(count - 1), 9) ELSE n
        cellset_min == IF count > 1 THEN Max(n - triangular_prime(count - 1), 1) ELSE n
        r2 == intersect_each(r1.data, cells, cellset_min..cellset_max, r1.changed)
    IN IF n >= triangular(count)
       THEN [ok |-> TRUE, data |-> r2.data, changed |-> r2.changed]
       ELSE [ok |-> FALSE, data |-> d, changed |-> FALSE]

\* a narrowing whose smallest allowed digit is one too big
constrain_cells_sum_high_min(n, cells, d) ==
    LET count == Len(cells)
        hit == <<n, count>> \in DOMAIN lookup
        r1 == IF hit THEN intersect_each(d, cells, lookup[<<n, count>>], FALSE)
              ELSE [data |-> d, changed |-> FALSE]
        cellset_max == IF count > 1 THEN Min(n - triangular(count - 1), 9) ELSE n
        cellset_min == IF count > 1 THEN Max(n - triangular_prime(count - 1), 1) + 1 ELSE n
        r2 == intersect_each(r1.data, cells, cellset_min..cellset_max, r1.changed)
    IN IF constrain_precondition(n, count)
       THEN [ok |-> TRUE, data |-> r2.data, changed |-> r2.changed]
       ELSE [ok |-> FALSE, data |-> d, changed |-> FALSE]

\* constrain_cells_sum(n, cells) on grid d: ok is FALSE when the assertion
\* fails (nothing is changed then)
constrain_cells_sum(n, cells, d) ==
    LET count == Len(cells)
        hit == <<n, count>> \in DOMAIN lookup
        r1 == IF hit THEN intersect_each(d, cells, lookup[<<n, count>>], FALSE)
              ELSE [data |-> d, changed |-> FALSE]
        cellset_max == IF count > 1 THEN Min(n - triangular(count - 1), 9) ELSE n
        cellset_min == IF count > 1 THEN Max(n - triangular_prime(count - 1), 1) ELSE n
        r2 == intersect_each(r1.data, cells, cellset_min..cellset_max, r1.changed)
    IN IF constrain_precondition(n, count)
       THEN [ok |-> TRUE, data |-> r2.data, changed |-> r2.changed]
       ELSE [ok |-> FALSE, data |-> d, changed |-> FALSE]

\* a valid_combination that forgets that the digits are distinct
valid_combination_range_only(t) ==
    \A i \in DOMAIN t : t[i] >= 1 /\ t[i] <= 9

\* valid_combination on a tuple
valid_combination(t) ==
    /\ Len(t) = Cardinality(Range(t))
    /\ \A i \in DOMAIN t : t[i] >= 1 /\ t[i] <= 9

----------------------------------------------------------------------------
(* Map                                                                     *)

idx2row(idx) == idx \div width
idx2col(idx) == idx % width

\* the indices of the Python slice [start:stop:step] (step > 0) of a tuple
\* of length stop or more
Slice(start, stop, step) ==
    IF start >= stop THEN <<>>
    ELSE [i \in 1..(((stop - start - 1) \div step) + 1) |-> start + (i - 1) * step]

items_south_of(d, row, column) ==
    Slice((row + 1) * width + column, Len(d), width)

items_east_of(d, row, column) ==
    Slice(row * width + column + 1, (row + 1) * width, 1)

\* Cell.contiguous: takewhile isinstance Cell
contiguous(d, items) ==
    LET stops == {i \in DOMAIN items : d[items[i] + 1].type # "Cell"}
        n == IF stops = {} THEN Len(items)
             ELSE (CHOOSE i \in stops : \A j \in stops : i <= j) - 1
    IN SubSeq(items, 1, n)

IsClue(d, idx) == d[idx + 1].type = "Clue"
IsCell(d, idx) == d[idx + 1].type = "Cell"

\* Kakuro.clues / Kakuro.cells: the indices, in order
clues(d) == SelectSeq([i \in 1..Len(d) |-> i - 1], LAMBDA idx : IsClue(d, idx))
cells(d) == SelectSeq([i \in 1..Len(d) |-> i - 1], LAMBDA idx : IsCell(d, idx))

----------------------------------------------------------------------------
(* Iteration orders and itertools.product                                  *)

\* The order in which a Python set of digits is iterated depends on the
\* interpreter: the elements of s in the order given by the permutation ord.
Ascending == <<1, 2, 3, 4, 5, 6, 7, 8, 9>>
IterOrders == {Ascending,
               <<9, 8, 7, 6, 5, 4, 3, 2, 1>>,
               <<8, 9, 1, 2, 3, 4, 5, 6, 7>>}
iter(s, ord) == SelectSeq(ord, LAMBDA x : x \in s)

\* the orders in which a set of cells can be iterated
Orders(S) == {o \in [1..Cardinality(S) -> S] :
                 \A i, j \in 1..Cardinality(S) : i # j => o[i] # o[j]}

RECURSIVE Stride(_, _)
Stride(ps, j) == IF j >= Len(ps) THEN 1 ELSE Len(ps[j + 1]) * Stride(ps, j + 1)

\* itertools.product(*ps) as the tuple of its combinations, in its order:
\* the rightmost pool advances fastest
product(ps) ==
    LET strides == [j \in 1..Len(ps) |-> Stride(ps, j)]
        total == IF Len(ps) = 0 THEN 1 ELSE Len(ps[1]) * strides[1]
    IN [i \in 1..total |->
           [j \in 1..Len(ps) |-> ps[j][(((i - 1) \div strides[j]) % Len(ps[j])) + 1]]]

----------------------------------------------------------------------------
(* Kakuro                                                                  *)

\* the values of the cells of a run, as the tuple is_solved builds
neighbors_values(d, items) ==
    LET run == contiguous(d, items)
    IN [k \in 1..Len(run) |-> unique_value(d[run[k] + 1])]

\* Kakuro.is_solved on grid d
is_solved(d) ==
    IF \E i \in DOMAIN d : d[i].type = "Cell" /\ ~is_unique(d[i])
    THEN FALSE
    ELSE \A k \in DOMAIN clues(d) :
          LET idx == clues(d)[k]
              clue == d[idx + 1]
              vneighbors == neighbors_values(d, items_south_of(d, idx2row(idx), idx2col(idx)))
              hneighbors == neighbors_values(d, items_east_of(d, idx2row(idx), idx2col(idx)))
          IN /\ ~(\/ Len(hneighbors) # Cardinality(Range(hneighbors))
                  \/ Len(vneighbors) # Cardinality(Range(vneighbors)))
             /\ ~(clue.vertical # SumSeq(vneighbors) \/ clue.horizontal # SumSeq(hneighbors))

\* The passes loop over the clues and, for each clue, over its two targets:
\* position k of that double loop is direction (vertical first) of clue
\* number (k + 1) \div 2.
NumRuns(d) == 2 * Len(clues(d))
RunClue(d, k) == clues(d)[(k + 1) \div 2]
RunTarget(d, k) ==
    IF k % 2 = 1 THEN d[RunClue(d, k) + 1].vertical ELSE d[RunClue(d, k) + 1].horizontal
RunItems(d, k) ==
    IF k % 2 = 1
    THEN items_south_of(d, idx2row(RunClue(d, k)), idx2col(RunClue(d, k)))
    ELSE items_east_of(d, idx2row(RunClue(d, k)), idx2col(RunClue(d, k)))

\* partition(Cell.is_unique, ...): the pending and the unique cells of a run
Pending(d, items) == SelectSeq(contiguous(d, items), LAMBDA c : ~is_unique(d[c + 1]))
Uniques(d, items) == SelectSeq(contiguous(d, items), LAMBDA c : is_unique(d[c + 1]))

\* The body of the inner loop of discard_from_uniques for a target n # 0:
\* ok is FALSE when an assertion fails, data is the grid at that point.
uniques_body(d, n, items, ch) ==
    LET pending == Pending(d, items)
        uniques == Uniques(d, items)
        substract_set == {unique_value(d[uniques[k] + 1]) : k \in DOMAIN uniques}
        r1 == substract_each(d, pending, substract_set, ch)
        n1 == n - SumSet(substract_set)
        r2 == constrain_cells_sum(n1, pending, r1.data)
    IN IF Cardinality(substract_set) # Len(uniques)
       THEN [ok |-> FALSE, data |-> d, changed |-> ch]
       ELSE IF n1 = 0
       THEN [ok |-> TRUE, data |-> r1.data, changed |-> r1.changed]
       ELSE IF ~r2.ok
       THEN [ok |-> FALSE, data |-> r1.data, changed |-> r1.changed]
       ELSE [ok |-> TRUE, data |-> r2.data, changed |-> r2.changed \/ r1.changed]

\* the candidates of cell that no combination of its neighbors completes to n
infeasible(d, cell, nbs, n) ==
    LET combos == product([j \in 1..Len(nbs) |-> iter(d[nbs[j] + 1].candidates, Ascending)])
    IN {x \in d[cell + 1].candidates :
           ~\E i \in DOMAIN combos :
               valid_combination(<<x>> \o combos[i]) /\ n = SumSeq(combos[i]) + x}

\* `for cell in pending: ...` of discard_from_single_clues, the set pending
\* being iterated in the order `order`, from its k-th cell on
RECURSIVE single_clues_cells(_, _, _, _, _)
single_clues_cells(d, order, k, n, ch) ==
    IF k > Len(order) THEN [ok |-> TRUE, data |-> d, changed |-> ch]
    ELSE LET cell == order[k]
             nbs == SelectSeq(order, LAMBDA c : c # cell)
             r == substract(d[cell + 1], infeasible(d, cell, nbs, n))
         IN single_clues_cells([d EXCEPT ![cell + 1] = r.cell], order, k + 1, n,
                               r.ret \/ ch)

\* The body of the inner loop of discard_from_single_clues for a target n # 0
single_clues_body(d, n, items, ch, order) ==
    LET uniques == Uniques(d, items)
        n1 == n - SumSeq([k \in 1..Len(uniques) |-> unique_value(d[uniques[k] + 1])])
    IN IF ~((Len(order) > 0 /\ n1 > 0) \/ (Len(order) = 0 /\ n1 = 0))
       THEN [ok |-> FALSE, data |-> d, changed |-> ch]
       ELSE IF n1 = 0
       THEN [ok |-> TRUE, data |-> d, changed |-> ch]
       ELSE single_clues_cells(d, order, 1, n1, ch)

\* the grid with the cells cs set to the digits of combination
assign(d, cs, combination) ==
    [i \in DOMAIN d |->
        IF \E j \in DOMAIN cs : cs[j] = i - 1
        THEN [d[i] EXCEPT !.candidates =
                 {combination[CHOOSE j \in DOMAIN cs : cs[j] = i - 1]}]
        ELSE d[i]]

crack_pending(d) == SelectSeq(cells(d), LAMBDA c : ~is_unique(d[c + 1]))

\* a crack that commits the last solution found instead of the first
crack_last_solution(d, ord) ==
    LET pending_cells == crack_pending(d)
        candidates == [j \in 1..Len(pending_cells) |->
                          iter(d[pending_cells[j] + 1].candidates, ord)]
        cartesian == product(candidates)
        solutions == SelectSeq(cartesian,
                        LAMBDA c : is_solved(assign(d, pending_cells, c)))
    IN IF Len(solutions) = 0
       THEN [ret |-> FALSE, pools |-> candidates,
             data |-> IF Len(cartesian) = 0 THEN d
                      ELSE assign(d, pending_cells, cartesian[Len(cartesian)])]
       ELSE [ret |-> TRUE, pools |-> candidates,
             data |-> assign(d, pending_cells, solutions[Len(solutions)])]

\* Kakuro.crack on grid d, its sets being iterated in order ord: the value
\* returned, the grid afterwards and the pools of the product
crack(d, ord) ==
    LET pending_cells == crack_pending(d)
        candidates == [j \in 1..Len(pending_cells) |->
                          iter(d[pending_cells[j] + 1].candidates, ord)]
        cartesian == product(candidates)
        solutions == SelectSeq(cartesian,
                        LAMBDA c : is_solved(assign(d, pending_cells, c)))
    IN IF Len(solutions) = 0
       THEN [ret |-> FALSE, pools |-> candidates,
             data |-> IF Len(cartesian) = 0 THEN d
                      ELSE assign(d, pending_cells, cartesian[Len(cartesian)])]
       ELSE [ret |-> TRUE, pools |-> candidates,
             data |-> assign(d, pending_cells, solutions[1])]

----------------------------------------------------------------------------
(* Runs and solutions, stated without the code's arithmetic                *)

\* the L-element sets of digits that sum to S
Decompositions(S, L) == {T \in SUBSET Digits : Cardinality(T) = L /\ SumSet(T) = S}

\* the smallest and the biggest sum of K distinct digits
MinSum(K) == SumSet(1..K)
MaxSumOf(K) == SumSet((10 - K)..9)

CellIdx(d) == {i - 1 : i \in {j \in DOMAIN d : d[j].type = "Cell"}}
RunCells(d, k) == contiguous(d, RunItems(d, k))
Passes == {"discard_from_uniques", "discard_from_single_clues"}

\* the runs of grid g that have a target: the target and the cells
TargetedRuns(g) ==
    {[target |-> RunTarget(g, k), cells |-> RunCells(g, k)] :
        k \in {j \in 1..NumRuns(g) : RunTarget(g, j) # 0}}

\* sigma gives every run of R distinct values that sum to its target
RunsHold(R, sigma) ==
    \A r \in R :
        /\ \A i, j \in DOMAIN r.cells : i # j => sigma[r.cells[i]] # sigma[r.cells[j]]
        /\ SumSeq([i \in 1..Len(r.cells) |-> sigma[r.cells[i]]]) = r.target

\* the assignments of digits to the cells C drawn from their candidates in g
RECURSIVE Drawn(_, _)
Drawn(g, C) ==
    IF C = {} THEN {<<>>}
    ELSE LET c == CHOOSE x \in C : TRUE
         IN {sigma @@ (c :> x) :
                sigma \in Drawn(g, C \ {c}), x \in g[c + 1].candidates \cap Digits}

\* the valid solutions of grid g that its candidate sets allow
Solutions(g) ==
    LET R == TargetedRuns(g)
        all == Drawn(g, CellIdx(g))
    IN {sigma \in all : RunsHold(R, sigma)}

----------------------------------------------------------------------------
(* The input grids                                                         *)

\* The shapes of the grids read: "C" is a cell, "V" a clue with a vertical
\* target, "H" a clue with a horizontal target and "B" the clue \ (no
\* target).  The targets of the run of three cells go 7 further than those
\* of the runs of two, as the biggest sum of three digits (24) does.
Layouts ==
    { [width |-> 3, height |-> 1, shape |-> <<"H", "C", "C">>,
       targets |-> 0..MaxClue],
      [width |-> 4, height |-> 1, shape |-> <<"H", "C", "C", "C">>,
       targets |-> 0..MaxClue + 7],
      [width |-> 2, height |-> 3, shape |-> <<"B", "V", "B", "C", "B", "C">>,
       targets |-> 0..MaxClue],
      [width |-> 3, height |-> 2, shape |-> <<"B", "V", "V", "H", "C", "C">>,
       targets |-> 0..MaxCross] }

\* the candidates a cell of the input holds: unrestricted, or restricted
\* to the digits of a token
CandChoices == {Digits, 1..MaxGiven} \cup {{g} : g \in 1..MaxGiven}

Positions(L, kinds) == {i \in DOMAIN L.shape : L.shape[i] \in kinds}

Grid(L, t, c) ==
    [i \in DOMAIN L.shape |->
        CASE L.shape[i] = "C" -> Cell(c[i])
          [] L.shape[i] = "V" -> Clue(t[i], 0)
          [] L.shape[i] = "H" -> Clue(0, t[i])
          [] L.shape[i] = "B" -> Clue(0, 0)]

----------------------------------------------------------------------------
(* The program: solve, then the report of the main program                 *)

\* the program starts: no grid is read yet
Init ==
    /\ width = 0
    /\ height = 0
    /\ data = <<>>
    /\ given = <<>>
    /\ valid = {}
    /\ entry = <<>>
    /\ pc = "read_csv"
    /\ ri = 1
    /\ changed = FALSE
    /\ log = <<>>
    /\ pools = <<>>
    /\ ret = FALSE
    /\ solved = FALSE
    /\ key = <<0, 0>>
    /\ summands = [found |-> FALSE, value |-> {}]

\* kakuro = Kakuro.read_csv(sys.argv[1]); kakuro.solve() starts: the file
\* holds one of the input grids
read_csv ==
    /\ pc = "read_csv"
    /\ \E L \in Layouts :
         \E t \in [Positions(L, {"V", "H"}) -> L.targets] :
           \E c \in [Positions(L, {"C"}) -> CandChoices] :
             /\ width' = L.width
             /\ height' = L.height
             /\ data' = Grid(L, t, c)
    /\ given' = data'
    /\ valid' = Solutions(data)'
    /\ entry' = data'
    /\ pc' = "discard_from_uniques"
    /\ UNCHANGED <<ri, changed, log, pools, ret, solved, key, summands>>

\* one turn of the loops `for row, column, clue in self.clues(): for n, cells
\* in zip(clue, (vcells, hcells))` of discard_from_uniques
discard_from_uniques ==
    /\ pc = "discard_from_uniques"
    /\ ri <= NumRuns(data)
    /\ LET n == RunTarget(data, ri)
           r == uniques_body(data, n, RunItems(data, ri), changed)
       IN IF n = 0
          THEN /\ ri' = ri + 1
               /\ UNCHANGED <<data, changed, pc>>
          ELSE /\ data' = r.data
               /\ changed' = r.changed
               /\ pc' = IF r.ok THEN pc ELSE "AssertionError"
               /\ ri' = IF r.ok THEN ri + 1 ELSE ri
    /\ UNCHANGED <<width, height, entry, given, valid, log, pools, ret, solved, key, summands>>

\* a loop of solve that runs Pass B after every Pass A
solve_after_uniques_to_single_clues ==
    /\ pc = "discard_from_uniques"
    /\ ri > NumRuns(data)
    /\ log' = Append(log, [phase |-> "discard_from_uniques", changed |-> changed])
    /\ pc' = "discard_from_single_clues"
    /\ ri' = 1
    /\ changed' = FALSE
    /\ entry' = data
    /\ UNCHANGED <<width, height, data, given, valid, pools, ret, solved, key, summands>>

\* `changed = self.discard_from_uniques()` returns into the loop of solve
solve_after_uniques ==
    /\ pc = "discard_from_uniques"
    /\ ri > NumRuns(data)
    /\ log' = Append(log, [phase |-> "discard_from_uniques", changed |-> changed])
    /\ pc' = IF changed THEN "discard_from_uniques" ELSE "discard_from_single_clues"
    /\ ri' = 1
    /\ changed' = FALSE
    /\ entry' = data
    /\ UNCHANGED <<width, height, data, given, valid, pools, ret, solved, key, summands>>

\* one turn of the loops of discard_from_single_clues
discard_from_single_clues ==
    /\ pc = "discard_from_single_clues"
    /\ ri <= NumRuns(data)
    /\ LET n == RunTarget(data, ri)
           items == RunItems(data, ri)
       IN IF n = 0
          THEN /\ ri' = ri + 1
               /\ UNCHANGED <<data, changed, pc>>
          ELSE \E order \in Orders(Range(Pending(data, items))) :
                 LET r == single_clues_body(data, n, items, changed, order)
                 IN /\ data' = r.data
                    /\ changed' = r.changed
                    /\ pc' = IF r.ok THEN pc ELSE "AssertionError"
                    /\ ri' = IF r.ok THEN ri + 1 ELSE ri
    /\ UNCHANGED <<width, height, entry, given, valid, log, pools, ret, solved, key, summands>>

\* `changed = self.discard_from_single_clues()` returns into the loop of
\* solve, which goes on or leaves for crack
solve_after_single_clues ==
    /\ pc = "discard_from_single_clues"
    /\ ri > NumRuns(data)
    /\ log' = Append(log, [phase |-> "discard_from_single_clues", changed |-> changed])
    /\ pc' = IF changed THEN "discard_from_uniques" ELSE "crack"
    /\ ri' = 1
    /\ changed' = FALSE
    /\ entry' = data
    /\ UNCHANGED <<width, height, data, given, valid, pools, ret, solved, key, summands>>

\* self.crack()
solve_crack ==
    /\ pc = "crack"
    /\ \E ord \in IterOrders :
         LET r == crack(data, ord)
         IN /\ data' = r.data
            /\ ret' = r.ret
            /\ pools' = r.pools
    /\ entry' = data
    /\ log' = Append(log, [phase |-> "crack", changed |-> FALSE])
    /\ pc' = "report"
    /\ UNCHANGED <<width, height, ri, changed, given, valid, solved, key, summands>>

\* print('Success.' if kakuro.is_solved() else 'Failure!')
main_report ==
    /\ pc = "report"
    /\ solved' = is_solved(data)
    /\ pc' = "exit"
    /\ UNCHANGED <<width, height, data, ri, changed, entry, given, valid, log, pools,
                   ret, key, summands>>

Next ==
    \/ read_csv
    \/ discard_from_uniques
    \/ solve_after_uniques
    \/ discard_from_single_clues
    \/ solve_after_single_clues
    \/ solve_crack
    \/ main_report

Spec == Init /\ [][Next]_vars

----------------------------------------------------------------------------
(* The two passes run in any order (each a whole execution)                *)

\* a pass has returned and either pass is called next
call_any_pass ==
    /\ pc \in {"discard_from_uniques", "discard_from_single_clues"}
    /\ ri > NumRuns(data)
    /\ pc' \in {"discard_from_uniques", "discard_from_single_clues"}
    /\ ri' = 1
    /\ changed' = FALSE
    /\ entry' = data
    /\ UNCHANGED <<width, height, data, given, valid, log, pools, ret, solved, key, summands>>

NextPasses ==
    \/ read_csv
    \/ discard_from_uniques
    \/ discard_from_single_clues
    \/ call_any_pass

SpecPasses == Init /\ [][NextPasses]_vars

----------------------------------------------------------------------------
(* The table queried on its own                                            *)

InitLookup ==
    /\ width = 0
    /\ height = 0
    /\ data = <<>>
    /\ given = <<>>
    /\ valid = {}
    /\ entry = <<>>
    /\ pc = "lookup"
    /\ ri = 1
    /\ changed = FALSE
    /\ log = <<>>
    /\ pools = <<>>
    /\ ret = FALSE
    /\ solved = FALSE
    /\ key \in (0..MaxSum) \X (1..9)
    /\ summands = [found |-> FALSE, value |-> {}]

\* try: summands = lookup[(n, count)] except KeyError: pass
table_lookup ==
    /\ pc = "lookup"
    /\ summands' = IF key \in DOMAIN lookup
                   THEN [found |-> TRUE, value |-> lookup[key]]
                   ELSE [found |-> FALSE, value |-> {}]
    /\ pc' = "looked_up"
    /\ UNCHANGED <<width, height, data, ri, changed, entry, given, valid, log, pools,
                   ret, solved, key>>

NextLookup == table_lookup

SpecLookup == InitLookup /\ [][NextLookup]_vars

----------------------------------------------------------------------------
(* The claims                                                              *)

\* C4: every entry of the table is a correct unique decomposition: the
\* value found for (S, L) has L digits, sums to S and is the only such set;
\* and the smallest and the biggest sum of every length L in 1..9 are
\* found, with values {1..L} and {10-L..9}.
C4_entries_unique ==
    pc = "looked_up" =>
        LET S == key[1]
            L == key[2]
        IN /\ summands.found =>
                /\ summands.value \subseteq Digits
                /\ Cardinality(summands.value) = L
                /\ SumSet(summands.value) = S
                /\ Decompositions(S, L) = {summands.value}
           /\ S = MinSum(L) => summands.found /\ summands.value = 1..L
           /\ S = MaxSumOf(L) => summands.found /\ summands.value = (10 - L)..9

\* C4 witness: the biggest sum of two cells, 17, was looked up and gave {8, 9}
C4_witness ==
    pc = "looked_up" /\ key = <<17, 2>> /\ summands.found /\ summands.value = {8, 9}

\* C7 as stated: the table answers whenever the decomposition is unique, and
\* has no entry only when zero or several decompositions exist.
C7_table_complete ==
    pc = "looked_up" =>
        LET D == Decompositions(key[1], key[2])
        IN /\ Cardinality(D) = 1 => summands.found /\ D = {summands.value}
           /\ ~summands.found => Cardinality(D) # 1

\* C7 amended: the table answers whenever the decomposition is unique except
\* for L = 8 and S in 38..42 (unique, but not entered); without an entry
\* there are zero or several decompositions, or L = 8 and S is in 38..42.
C7_table_partial ==
    pc = "looked_up" =>
        LET D == Decompositions(key[1], key[2])
            left_out == key[2] = 8 /\ key[1] \in 38..42
        IN /\ Cardinality(D) = 1 /\ ~left_out => summands.found /\ D = {summands.value}
           /\ ~summands.found => Cardinality(D) # 1 \/ left_out
           /\ left_out => ~summands.found /\ Cardinality(D) = 1

\* C7 witness: the second smallest sum of two cells was looked up and found
C7_witness ==
    pc = "looked_up" /\ key = <<4, 2>> /\ summands.found /\ summands.value = {1, 3}

\* the grid is solved as C2 has it: every cell holds one digit and every
\* direction with a target has distinct values that sum to it
SolvedAsClaimed(d) ==
    /\ \A c \in CellIdx(d) : Cardinality(d[c + 1].candidates) = 1
    /\ RunsHold(TargetedRuns(d), [c \in CellIdx(d) |-> unique_value(d[c + 1])])

\* C2 as stated: is_solved is True iff every cell holds exactly one digit and
\* every direction with a nonzero target has distinct values summing to it,
\* a direction with target 0 imposing nothing.
C2_is_solved_iff ==
    pc = "exit" => (solved <=> SolvedAsClaimed(data))

\* C8 as stated: in Pass A, for a run with a target, once the resolved
\* digits are subtracted: with no pending cell a residual other than 0 is a
\* contradiction, and with pending cells the precondition of the narrowing
\* (residual in [MinSum(K), MaxSumOf(K)]) is checked whatever the residual.
C8_precondition_always_checked ==
    [][(/\ pc = "discard_from_uniques"
        /\ ri <= NumRuns(data)
        /\ RunTarget(data, ri) # 0)
       => LET items == RunItems(data, ri)
              K == Len(Pending(data, items))
              uniques == Uniques(data, items)
              residual == RunTarget(data, ri)
                          - SumSet({unique_value(data[uniques[k] + 1]) : k \in DOMAIN uniques})
          IN /\ K = 0 /\ residual # 0 => pc' = "AssertionError"
             /\ K > 0 /\ (residual < MinSum(K) \/ residual > MaxSumOf(K))
                   => pc' = "AssertionError"]_vars


\* C1: soundness of the passes: every valid solution of the grid as loaded
\* (distinct values summing to the target in every run with a target, each
\* value among the cell's initial candidates) keeps each of its values in
\* the cell's candidate set in every state the passes reach, in any order
\* of the passes; and no assertion fails on a grid that has such a solution.
C1_soundness ==
    \A sigma \in valid :
        /\ pc # "AssertionError"
        /\ \A c \in CellIdx(data) : sigma[c] \in data[c + 1].candidates

\* C1 witness: a pass has removed candidates from a grid that has a solution
\* and still has pending cells
C1_witness ==
    /\ pc = "discard_from_single_clues"
    /\ ri > NumRuns(data)
    /\ changed
    /\ valid # {}
    /\ \E c \in CellIdx(data) : Cardinality(data[c + 1].candidates) > 1

\* C5: in Pass A a run of K >= 1 cells, all pending, whose target N # 0 is
\* outside [MinSum(K), MaxSumOf(K)] raises the contradiction with no
\* candidate set changed by that run; after a contradiction nothing runs,
\* so the search is never reached.
C5_infeasible_rejected ==
    [][/\ (/\ pc = "discard_from_uniques"
           /\ ri <= NumRuns(data)
           /\ RunTarget(data, ri) # 0
           /\ Len(RunCells(data, ri)) >= 1
           /\ Len(Pending(data, RunItems(data, ri))) = Len(RunCells(data, ri))
           /\ \/ RunTarget(data, ri) < MinSum(Len(RunCells(data, ri)))
              \/ RunTarget(data, ri) > MaxSumOf(Len(RunCells(data, ri))))
          => pc' = "AssertionError" /\ data' = data
       /\ pc = "AssertionError" => pc' = "AssertionError"]_vars

\* C5 witness: Pass A stopped at a run of two pending cells with a target
\* above 17, the grid being as loaded
C5_witness ==
    /\ pc = "AssertionError"
    /\ log = <<>>
    /\ data = given
    /\ Len(RunCells(data, ri)) = 2
    /\ Len(Pending(data, RunItems(data, ri))) = 2
    /\ RunTarget(data, ri) > MaxSumOf(2)

\* the grid is one run: one clue direction has a target and its run holds
\* every cell of the grid
SingleRun(g) ==
    \E k \in 1..NumRuns(g) :
        /\ RunTarget(g, k) # 0
        /\ \A j \in 1..NumRuns(g) : j # k => RunTarget(g, j) = 0
        /\ Range(RunCells(g, k)) = CellIdx(g)
        /\ CellIdx(g) # {}

\* C6: on a grid that is a single run and has a valid assignment, when the
\* propagation is exhausted every cell holds exactly the digits it takes in
\* some valid assignment drawn from the initial candidates; for target 6
\* and two unrestricted cells both cells end with {1, 2, 4, 5}.
C6_single_run_exact ==
    pc = "crack" /\ SingleRun(given) /\ valid # {} =>
        /\ \A c \in CellIdx(data) :
              data[c + 1].candidates = {sigma[c] : sigma \in valid}
        /\ (/\ \A c \in CellIdx(given) : given[c + 1].candidates = Digits
            /\ Cardinality(CellIdx(given)) = 2
            /\ \E k \in 1..NumRuns(given) : RunTarget(given, k) = 6)
           => \A c \in CellIdx(data) : data[c + 1].candidates = {1, 2, 4, 5}

\* C6 witness: the run of two unrestricted cells with target 6 is exhausted
C6_witness ==
    /\ pc = "crack"
    /\ SingleRun(given)
    /\ Cardinality(CellIdx(given)) = 2
    /\ \A c \in CellIdx(given) : given[c + 1].candidates = Digits
    /\ \E k \in 1..NumRuns(given) : RunTarget(given, k) = 6
    /\ \A c \in CellIdx(data) : data[c + 1].candidates = {1, 2, 4, 5}

\* the combinations crack enumerates, for the cells P pending on entry
Combinations(g, P) ==
    {c \in [1..Len(P) -> Digits] : \A j \in 1..Len(P) : c[j] \in g[P[j] + 1].candidates}

\* position of digit x in a pool
Pos(pool, x) == CHOOSE i \in DOMAIN pool : pool[i] = x

\* combination a comes before b in the enumeration of the product of ps
Before(ps, a, b) ==
    \E j \in DOMAIN ps :
        /\ \A i \in 1..(j - 1) : a[i] = b[i]
        /\ Pos(ps[j], a[j]) < Pos(ps[j], b[j])

\* C3: crack returns True iff some combination of the candidates of the
\* non-unique cells makes the grid pass is_solved; then those cells hold the
\* first such combination of the enumeration, the cells unique on entry are
\* unchanged and the resulting grid passes is_solved.
C3_crack_first_solution ==
    pc = "report" =>
        LET P == crack_pending(entry)
            good == {c \in Combinations(entry, P) : is_solved(assign(entry, P, c))}
        IN /\ ret <=> good # {}
           /\ ret =>
                /\ \E c \in good :
                      /\ \A j \in 1..Len(P) : data[P[j] + 1].candidates = {c[j]}
                      /\ \A b \in good : b # c => Before(pools, c, b)
                /\ \A i \in DOMAIN data :
                      (\A j \in 1..Len(P) : P[j] # i - 1) => data[i] = entry[i]
                /\ is_solved(data)

\* C3 witness: crack succeeded with two cells pending and several
\* combinations passing is_solved
C3_witness ==
    /\ pc = "report"
    /\ ret
    /\ Len(crack_pending(entry)) = 2
    /\ Cardinality({c \in Combinations(entry, crack_pending(entry)) :
                       is_solved(assign(entry, crack_pending(entry), c))}) > 1

\* the phases solve has started: those completed and the one running
Started ==
    [i \in 1..Len(log) |-> log[i].phase]
    \o (IF pc \in Passes \cup {"crack"} THEN <<pc>> ELSE <<>>)

\* C9: solve starts with Pass A; Pass B runs only right after a Pass A that
\* reported no change; after a Pass B that reported a change comes Pass A;
\* crack starts once, only after a Pass A and the Pass B following it both
\* reported no change, and no pass starts after crack.
C9_phase_order ==
    /\ Len(Started) >= 1 => Started[1] = "discard_from_uniques"
    /\ pc \in Passes \cup {"crack"} => pc = Started[Len(Started)]
    /\ \A i \in DOMAIN Started :
          /\ Started[i] = "discard_from_single_clues" =>
                /\ i > 1
                /\ log[i - 1] = [phase |-> "discard_from_uniques", changed |-> FALSE]
          /\ Started[i] = "crack" =>
                /\ i > 2
                /\ i = Len(Started)
                /\ log[i - 2] = [phase |-> "discard_from_uniques", changed |-> FALSE]
                /\ log[i - 1] = [phase |-> "discard_from_single_clues", changed |-> FALSE]
          /\ (/\ i > 1
              /\ log[i - 1] = [phase |-> "discard_from_single_clues", changed |-> TRUE])
             => Started[i] = "discard_from_uniques"
          /\ (/\ i > 1
              /\ log[i - 1] = [phase |-> "discard_from_uniques", changed |-> TRUE])
             => Started[i] = "discard_from_uniques"

\* C9 witness: crack is reached after a Pass B that reported a change sent
\* solve back to Pass A
C9_witness ==
    /\ pc = "crack"
    /\ \E i \in DOMAIN log :
          log[i] = [phase |-> "discard_from_single_clues", changed |-> TRUE]

\* the number of passes completed that reported a change
ChangeReports == Cardinality({i \in DOMAIN log : log[i].changed})

\* the number of candidates the cells of d hold
TotalCandidates(d) ==
    SumSeq([k \in 1..Len(cells(d)) |-> Cardinality(d[cells(d)[k] + 1].candidates)])

\* what the loop of solve has left to do at most: the candidates held when
\* the pass was entered, then the pass, then the position in the pass
Variant ==
    TotalCandidates(entry) * 2 * (NumRuns(data) + 2)
    + (IF pc = "discard_from_uniques" THEN NumRuns(data) + 2 ELSE 0)
    + (NumRuns(data) + 1 - ri)

\* C10: propagation terminates: while the passes run no candidate set gains
\* a digit; a pass reports a change exactly when it removed a digit from
\* some cell; at most 9 x (number of cells) passes report a change; and the
\* loop ends, in a contradiction or in crack: every step in it lowers a
\* variant that is never negative, and it is left only for one of the two.
C10_propagation_terminates ==
    /\ [][(pc \in Passes) =>
            /\ \A c \in CellIdx(data) :
                  data'[c + 1].candidates \subseteq data[c + 1].candidates
            /\ pc' \in Passes \cup {"AssertionError", "crack"}
            /\ pc' \in Passes => Variant' < Variant]_vars
    /\ [](pc \in Passes => Variant >= 0)
    /\ [](pc \in Passes /\ ri > NumRuns(data) =>
            (changed <=> \E c \in CellIdx(data) :
                            data[c + 1].candidates # entry[c + 1].candidates))
    /\ [](ChangeReports <= 9 * Cardinality(CellIdx(data)))

\* C10 witness: crack is reached after two passes that reported a change
C10_witness ==
    pc = "crack" /\ ChangeReports >= 2

====
